---- MODULE Spec2Model ----
(***************************************************************************)
(* The round lifecycle engine of server.js: createNewRound, settleRound,   *)
(* the setInterval poll of startGameLoop and the POST /api/game/bet        *)
(* handler, over a store of Round and Bet documents.                       *)
(*                                                                         *)
(* Instants are JavaScript Date values: milliseconds since the epoch.  The *)
(* clock of the model moves in whole seconds, so sub-second instants are   *)
(* not explored.  Every await of a repository call is a scheduling point:  *)
(* one action of the model is one repository call reaching the store,      *)
(* together with the synchronous code that runs when its result comes      *)
(* back, up to the next await.                                             *)
(***************************************************************************)
EXTENDS Integers, Sequences, FiniteSets, TLC

(***************************************************************************)
(* Program constants.                                                      *)
(***************************************************************************)
\* const MODES = { '30s': 30, '1min': 60, '3min': 180, '5min': 300 }
MODES == ("30s" :> 30) @@ ("1min" :> 60) @@ ("3min" :> 180) @@ ("5min" :> 300)

\* Object.keys(MODES), in insertion order
ModeKeys == <<"30s", "1min", "3min", "5min">>

\* setInterval(..., 1000)
PollIntervalMs == 1000

\* timeLeft <= 5 (seconds), in the poll and in the bet handler
LockThreshold == 5

\* amount < 10 is refused
MinBet == 10

\* randomInt(0, 10): the upper end is exclusive
RandomUpper == 10

\* milliseconds in a second: duration * 1000, (endTime - now) / 1000
MsPerSec == 1000

\* milliseconds in a day, as Date's setHours(0, 0, 0, 0) sees them
MsPerDay == 86400000

\* The process runs with no TZ set (the image of the Dockerfile): local
\* time is UTC, so the offset of local time from UTC is 0 ms.
TzOffsetMs == 0

\* String(periodNum).padStart(4, '0')
PeriodPad == 4

(***************************************************************************)
(* Bounds of the model.                                                    *)
(***************************************************************************)
\* how many of the tracks of ModeKeys run (the first NumTracks)
NumTracks == 2

\* polls that may be in flight at once
MaxInFlight == 2

\* polls fired over a run
MaxTicks == 5

\* repository calls that fail over a run
MaxErrors == 1

\* process stops over a run
MaxCrashes == 1

\* wagers submitted over a run
MaxBets == 1

\* the greatest number settleRound draws in the runs of the engine (of 0..9)
MaxDraw == 1

\* 1970-01-02T10:15:00Z, a slot boundary of every track (TLC's integers are
\* 32 bits wide, which holds the instants of the first 24 days of 1970)
Boundary == MsPerDay + 36900 * MsPerSec

\* seconds before Boundary at which the process first starts
StartBefore == 3

\* seconds after Boundary at which the clock stops
Horizon == 35

\* the rounds, by _id, the property of the fair runs follows
LiveRounds == 3

\* calendar days the evaluations of the pure functions draw instants from
CalcDays == 2

Tracks == {ModeKeys[i] : i \in 1..NumTracks}

(***************************************************************************)
(* Date arithmetic (local time) and the period identifier.                 *)
(***************************************************************************)
\* Days since 1970-01-01 of the local calendar day holding instant t.
LocalDay(t) == (t + TzOffsetMs) \div MsPerDay

\* Year, month (1..12) and day of month of a day number: what getFullYear,
\* getMonth() + 1 and getDate give for the proleptic Gregorian calendar.
CivilFromDays(days) ==
    LET z   == days + 719468
        era == z \div 146097
        doe == z - era * 146097
        yoe == (doe - doe \div 1460 + doe \div 36524 - doe \div 146096) \div 365
        doy == doe - (365 * yoe + yoe \div 4 - yoe \div 100)
        mp  == (5 * doy + 2) \div 153
        d   == doy - (153 * mp + 2) \div 5 + 1
        m   == IF mp < 10 THEN mp + 3 ELSE mp - 9
        y   == yoe + era * 400 + (IF m <= 2 THEN 1 ELSE 0)
    IN  [year |-> y, month |-> m, day |-> d]

\* String.prototype.padStart(n, '0')
RECURSIVE PadStart(_, _)
PadStart(s, n) == IF Len(s) >= n THEN s ELSE PadStart("0" \o s, n)

\* new Date(date).setHours(0, 0, 0, 0): local midnight of t's day
StartOfDay(t) == LocalDay(t) * MsPerDay - TzOffsetMs

\* a period number that starts again at 1 every hour
PeriodNumOfHour(mode, time) ==
    (((time - StartOfDay(time)) \div MsPerSec) % 3600) \div MODES[mode] + 1

\* Math.floor(diff / 1000 / modeSeconds) + 1
PeriodNum(mode, time) ==
    ((time - StartOfDay(time)) \div MsPerSec) \div MODES[mode] + 1

generatePeriod(mode, time) ==
    LET c    == CivilFromDays(LocalDay(time))
        yyyy == ToString(c.year)
        mm   == PadStart(ToString(c.month), 2)
        dd   == PadStart(ToString(c.day), 2)
    IN  yyyy \o mm \o dd \o ToString(MODES[mode])
             \o PadStart(ToString(PeriodNum(mode, time)), PeriodPad)

(***************************************************************************)
(* The slot of createNewRound.                                             *)
(***************************************************************************)
\* const modeMs = duration * 1000
ModeMs(mode) == MODES[mode] * MsPerSec

\* a slot that starts at the instant of the call instead of on the grid
AlignedStartFromNow(mode, now) == now

\* a start aligned to the second instead of to the slot
AlignedStartToSecond(mode, now) == (now \div MsPerSec) * MsPerSec

\* new Date(Math.floor(now.getTime() / modeMs) * modeMs)
AlignedStart(mode, now) == (now \div ModeMs(mode)) * ModeMs(mode)

\* a slot computation that always takes the "behind, start next slot" advance
NextStartAdvanced(mode, now) == AlignedStart(mode, now) + ModeMs(mode)

\* let nextStart = startTime; if (startTime + modeMs <= now) nextStart = startTime + modeMs
NextStart(mode, now) ==
    LET startTime == AlignedStart(mode, now)
    IN  IF startTime + ModeMs(mode) <= now THEN startTime + ModeMs(mode)
        ELSE startTime

(***************************************************************************)
(* The outcome of settleRound.                                             *)
(***************************************************************************)
\* randomInt(0, 10)
RandomInt == 0..(RandomUpper - 1)

\* the draws the runs of the engine explore
Draws == {n \in RandomInt : n <= MaxDraw}

ColorOf(number) ==
    IF number = 0 THEN "red_violet"
    ELSE IF number = 5 THEN "green_violet"
    ELSE IF number \in {1, 3, 7, 9} THEN "green"
    ELSE "red"

\* a size that counts 5 as small
SizeAbove(number) == IF number > 5 THEN "big" ELSE "small"

SizeOf(number) == IF number >= 5 THEN "big" ELSE "small"

\* round.result = { number, color, size }
ResultOf(number) ==
    [number |-> number, color |-> ColorOf(number), size |-> SizeOf(number)]

\* the result of a round that was never settled: its fields are undefined
NoResult == [number |-> -1, color |-> "undefined", size |-> "undefined"]

(***************************************************************************)
(* State.                                                                  *)
(***************************************************************************)
VARIABLES
    now,       \* the wall clock, ms since the epoch
    up,        \* the process runs: mongoose is connected, the interval is set
    nextTick,  \* the instant the interval timer fires next
    rounds,    \* the Round collection: a document's _id is its index
    bets,      \* the Bet collection
    ops,       \* ops[s][m]: the async call chain of track m in slot s;
               \* slot 0 holds the un-awaited createNewRound calls of
               \* startGameLoop, slot k >= 1 one firing of the interval
    bet,       \* the bet request being handled
    resp,      \* the last response of the bet handler
    ticks,     \* polls fired so far
    errors,    \* repository calls failed so far
    crashes,   \* process stops so far
    betsUsed,  \* wagers submitted so far
    bootId,    \* the _id the first document saved after the last start gets
    lim,       \* what a run explores: its tracks and its budgets (fixed)
    lastErr,   \* the last repository error this process logged: where it
               \* struck, and whether the timer has fired since
    calc       \* the last evaluation of a pure function: its inputs and
               \* what it returned

vars == <<now, up, nextTick, rounds, bets, ops, bet, resp, ticks, errors,
          crashes, betsUsed, bootId, lim, lastErr, calc>>

Slots == 0..MaxInFlight

TickSlots == 1..lim.inflight

\* a call chain that is not running
IdleOp ==
    [pc |-> "done", rid |-> 0, number |-> -1, at |-> 0, start |-> 0,
     end |-> 0, period |-> "", out |-> "idle"]

Finished(outcome) == [IdleOp EXCEPT !.out = outcome]

\* createNewRound(mode) up to its first await: the slot and the period are
\* computed from the clock before Round.findOne({ mode, period }) is sent.
CreateNewRoundCall(mode, t) ==
    LET nextStart == NextStart(mode, t)
    IN  [pc |-> "cnrFind", rid |-> 0, number |-> -1, at |-> t,
         start |-> nextStart, end |-> nextStart + ModeMs(mode),
         period |-> generatePeriod(mode, nextStart), out |-> "running"]

\* Round.findOne({ mode }).sort({ startTime: -1 }): the documents of the
\* track with the greatest startTime; the store returns any one of them.
LatestIds(mode) ==
    {i \in DOMAIN rounds :
        /\ rounds[i].mode = mode
        /\ \A j \in DOMAIN rounds :
              rounds[j].mode = mode => rounds[j].startTime <= rounds[i].startTime}

\* Round.findOne({ mode, period })
Existing(mode, period) ==
    {i \in DOMAIN rounds : rounds[i].mode = mode /\ rounds[i].period = period}

\* (round.endTime - now) / 1000, kept in ms
TimeLeftMs(round, t) == round.endTime - t

\* timeLeft <= 5
WithinLock(round, t) == TimeLeftMs(round, t) <= LockThreshold * MsPerSec

\* a poll that takes the time for up as soon as the lock threshold is reached
TimeUpSoon(round, t) == TimeLeftMs(round, t) <= LockThreshold * MsPerSec

\* timeLeft <= 0
TimeUp(round, t) == TimeLeftMs(round, t) <= 0

\* The branch the poll takes on the round it read.
\*   if (timeLeft <= 5 && round.status === 'open') lock
\*   else if (timeLeft <= 0 && round.status !== 'settled') settle
PollBranch(round, t) ==
    IF WithinLock(round, t) /\ round.status = "open" THEN "lock"
    ELSE IF TimeUp(round, t) /\ round.status # "settled" THEN "settle"
    ELSE "none"

\* a slot whose per-track chains have all ended (Promise.all has resolved)
SlotFree(s) == \A m \in lim.tracks : ops[s][m].pc = "done"

\* the polls whose callback has not returned yet
TicksInFlight == {s \in TickSlots : ~SlotFree(s)}

(***************************************************************************)
(* Init: no process runs yet, the store is empty.                          *)
(***************************************************************************)
NoBet == [pc |-> "idle", mode |-> "", betType |-> "", betValue |-> "",
          amount |-> 0, multiplier |-> 0, roundId |-> 0, period |-> ""]

NoResp == [code |-> 0, error |-> "", wellFormed |-> FALSE, roundOk |-> FALSE]

\* no function evaluated yet
NoCalc == [op |-> "none"]

NoErr == [track |-> "", pc |-> "", rid |-> 0, start |-> 0, polled |-> FALSE]

InitWith(limits) ==
    /\ lim = limits
    /\ now = Boundary - StartBefore * MsPerSec
    /\ up = FALSE
    /\ nextTick = 0
    /\ rounds = <<>>
    /\ bets = <<>>
    /\ ops = [s \in Slots |-> [m \in limits.tracks |-> IdleOp]]
    /\ bet = NoBet
    /\ resp = NoResp
    /\ ticks = 0
    /\ errors = 0
    /\ crashes = 0
    /\ betsUsed = 0
    /\ bootId = 1
    /\ lastErr = NoErr
    /\ calc = NoCalc

\* one track, overlapping polls, a failing repository call, a process stop
Init ==
    InitWith([tracks |-> {ModeKeys[1]}, inflight |-> MaxInFlight,
              ticks |-> MaxTicks, errors |-> MaxErrors,
              crashes |-> MaxCrashes, bets |-> 0])

\* several tracks, one poll at a time, a failing repository call
InitTracks ==
    InitWith([tracks |-> Tracks, inflight |-> 1, ticks |-> MaxTicks,
              errors |-> MaxErrors, crashes |-> 0, bets |-> 0])

\* one track, one poll at a time, a failing repository call, wagers
InitBets ==
    InitWith([tracks |-> {ModeKeys[1]}, inflight |-> 1, ticks |-> MaxTicks,
              errors |-> MaxErrors, crashes |-> 0, bets |-> MaxBets])

TypeOK ==
    /\ up \in BOOLEAN
    /\ ticks \in 0..lim.ticks
    /\ errors \in 0..lim.errors
    /\ crashes \in 0..lim.crashes
    /\ betsUsed \in 0..lim.bets
    /\ \A i \in DOMAIN rounds :
          /\ rounds[i].mode \in lim.tracks
          /\ rounds[i].status \in {"open", "locked", "settled"}

(***************************************************************************)
(* The process.                                                            *)
(***************************************************************************)
\* mongoose.connect(...).then(startGameLoop): createNewRound(mode) is called
\* for every track and not awaited, then the interval is set.
Start ==
    /\ ~up
    /\ up' = TRUE
    /\ nextTick' = now + PollIntervalMs
    /\ ops' = [s \in Slots |->
                 [m \in lim.tracks |->
                    IF s = 0 THEN CreateNewRoundCall(m, now) ELSE IdleOp]]
    /\ bootId' = Len(rounds) + 1
    /\ UNCHANGED <<now, rounds, bets, bet, resp, ticks, errors, crashes,
                   betsUsed, lim, calc, lastErr>>

\* The process stops (a kill, a redeploy, process.exit): its timers and its
\* pending call chains are gone, the store stays.  A write already sent is
\* applied before the stop or never.
Crash ==
    /\ up
    /\ crashes < lim.crashes
    /\ crashes' = crashes + 1
    /\ up' = FALSE
    /\ nextTick' = 0
    /\ ops' = [s \in Slots |-> [m \in lim.tracks |-> IdleOp]]
    /\ bet' = NoBet
    /\ lastErr' = NoErr
    /\ UNCHANGED <<now, rounds, bets, resp, ticks, errors, betsUsed, bootId, lim, calc>>

\* Time passes.  While the process runs the timer fires every interval, so
\* the clock does not pass nextTick before the poll has fired; while it is
\* down the clock moves by a whole slot of the shortest track (a restart with
\* no step in between is a restart within the same second).
DownSteps == {MODES[ModeKeys[1]] * MsPerSec}

Advance ==
    /\ \E d \in (IF up THEN {PollIntervalMs} ELSE DownSteps) :
          /\ now + d <= Boundary + Horizon * MsPerSec
          /\ up => now + d <= nextTick
          /\ now' = now + d
    /\ UNCHANGED <<up, nextTick, rounds, bets, ops, bet, resp, ticks, errors,
                   crashes, betsUsed, bootId, lim, calc, lastErr>>

(***************************************************************************)
(* The poll: setInterval(async () => { ... }, 1000).                       *)
(***************************************************************************)
\* the lowest slot that holds no running poll
FirstFree(s) == SlotFree(s) /\ \A q \in TickSlots : q < s => ~SlotFree(q)

\* The timer fires: the callback maps every track to an async function, each
\* of which runs up to its first await, Round.findOne({ mode }).sort(...).
\* setInterval does not wait for the promise of the previous callback.
TickFire ==
    /\ up
    /\ now >= nextTick
    /\ ticks < lim.ticks
    /\ \E s \in TickSlots :
          /\ FirstFree(s)
          /\ ops' = [ops EXCEPT ![s] =
                        [m \in lim.tracks |->
                            [IdleOp EXCEPT !.pc = "findLatest", !.out = "running"]]]
    /\ nextTick' = nextTick + PollIntervalMs
    /\ ticks' = ticks + 1
    /\ lastErr' = IF lastErr = NoErr THEN NoErr ELSE [lastErr EXCEPT !.polled = TRUE]
    /\ UNCHANGED <<now, up, rounds, bets, bet, resp, errors, crashes, betsUsed,
                   bootId, lim, calc>>

\* The latest round of the track comes back and the callback runs to its
\* next await.
Poll(s, m) ==
    /\ ops[s][m].pc = "findLatest"
    /\ IF LatestIds(m) = {}
       THEN \* if (!round) { await createNewRound(mode); return; }
            ops' = [ops EXCEPT ![s][m] = CreateNewRoundCall(m, now)]
       ELSE \E r \in LatestIds(m) :
              LET round == rounds[r]
              IN  IF round.status = "settled"
                  THEN ops' = [ops EXCEPT ![s][m] = CreateNewRoundCall(m, now)]
                  ELSE IF PollBranch(round, now) = "lock"
                  THEN \* round.status = 'locked'; await round.save()
                       ops' = [ops EXCEPT ![s][m].pc = "lockSave", ![s][m].rid = r]
                  ELSE IF PollBranch(round, now) = "settle"
                  THEN \* settleRound(round) up to await round.save()
                       \E n \in Draws :
                          ops' = [ops EXCEPT ![s][m].pc = "settleSave",
                                             ![s][m].rid = r,
                                             ![s][m].number = n]
                  ELSE ops' = [ops EXCEPT ![s][m] = Finished("none")]
    /\ UNCHANGED <<now, up, nextTick, rounds, bets, bet, resp, ticks, errors,
                   crashes, betsUsed, bootId, lim, calc, lastErr>>

\* round.save() of the lock: $set { status: 'locked' } on the document
LockSave(s, m) ==
    /\ ops[s][m].pc = "lockSave"
    /\ rounds' = [rounds EXCEPT ![ops[s][m].rid].status = "locked"]
    /\ ops' = [ops EXCEPT ![s][m] = Finished("locked")]
    /\ UNCHANGED <<now, up, nextTick, bets, bet, resp, ticks, errors, crashes,
                   betsUsed, bootId, lim, calc, lastErr>>

\* round.save() of settleRound: $set { result, status: 'settled' }, and then
\* createNewRound(round.mode) up to its first await
SettleSave(s, m) ==
    /\ ops[s][m].pc = "settleSave"
    /\ rounds' = [rounds EXCEPT ![ops[s][m].rid].result = ResultOf(ops[s][m].number),
                                ![ops[s][m].rid].status = "settled"]
    /\ ops' = [ops EXCEPT ![s][m] =
                  [CreateNewRoundCall(m, now) EXCEPT !.rid = ops[s][m].rid]]
    /\ UNCHANGED <<now, up, nextTick, bets, bet, resp, ticks, errors, crashes,
                   betsUsed, bootId, lim, calc, lastErr>>

(***************************************************************************)
(* createNewRound after its first await.                                   *)
(***************************************************************************)
\* const existing = await Round.findOne({ mode, period }); if (existing) return;
CnrFind(s, m) ==
    /\ ops[s][m].pc = "cnrFind"
    /\ IF Existing(m, ops[s][m].period) # {}
       THEN ops' = [ops EXCEPT ![s][m] =
                       [Finished("exists") EXCEPT !.rid = ops[s][m].rid]]
       ELSE ops' = [ops EXCEPT ![s][m].pc = "cnrSave"]
    /\ UNCHANGED <<now, up, nextTick, rounds, bets, bet, resp, ticks, errors,
                   crashes, betsUsed, bootId, lim, calc, lastErr>>

\* the document createNewRound builds
NewRound(mode, op) ==
    [mode |-> mode, period |-> op.period, startTime |-> op.start,
     endTime |-> op.end, status |-> "open", result |-> NoResult]

\* await round.save() of the new document
CnrSave(s, m) ==
    /\ ops[s][m].pc = "cnrSave"
    /\ rounds' = Append(rounds, NewRound(m, ops[s][m]))
    /\ ops' = [ops EXCEPT ![s][m] =
                  [Finished("created") EXCEPT !.rid = ops[s][m].rid]]
    /\ UNCHANGED <<now, up, nextTick, bets, bet, resp, ticks, errors, crashes,
                   betsUsed, bootId, lim, calc, lastErr>>

\* a process that an error of a repository call brings down
DownAfterError == FALSE

\* What a rejected repository call does to the chain of track m: every await
\* of the poll is inside try/catch (the callback's, or createNewRound's own),
\* the error is logged and the chain ends; the process goes on.
OnRepositoryError(current, s, m) ==
    [current EXCEPT ![s][m] = Finished("error")]

\* the catch blocks log the error: nothing is rethrown, the process runs on
StillUpAfterError == TRUE

\* A repository call of the chain fails: nothing is written.
RepositoryError(s, m) ==
    /\ ops[s][m].pc # "done"
    /\ errors < lim.errors
    /\ errors' = errors + 1
    /\ ops' = OnRepositoryError(ops, s, m)
    /\ up' = StillUpAfterError
    /\ lastErr' = [track |-> m, pc |-> ops[s][m].pc, rid |-> ops[s][m].rid,
                   start |-> ops[s][m].start, polled |-> FALSE]
    /\ UNCHANGED <<now, nextTick, rounds, bets, bet, resp, ticks, crashes,
                   betsUsed, bootId, lim, calc>>

(***************************************************************************)
(* POST /api/game/bet.                                                     *)
(***************************************************************************)
\* A value of the JSON body: its type and what String(value) gives.
Str(v) == [tag |-> "string", v |-> v]

Num(v) == [tag |-> "number", v |-> v]

\* !x is false
Truthy(x) ==
    /\ ~(x.tag = "number" /\ x.v = "0")
    /\ ~(x.tag = "string" /\ x.v = "")

\* the digits /^[0-9]$/ matches
DigitStrings == {"0", "1", "2", "3", "4", "5", "6", "7", "8", "9"}

\* the bodies the runs submit
ReqModes == {ModeKeys[1], "10min"}

ReqBets ==
    {<<"color", Str("green")>>, <<"color", Str("purple")>>,
     <<"number", Str("7")>>, <<"number", Num("0")>>, <<"size", Str("big")>>}

ReqAmounts == {MinBet - 5, MinBet}

ReqMultipliers == {1}

Requests ==
    {[mode |-> md, betType |-> b[1], betValue |-> b[2], amount |-> a,
      multiplier |-> k] :
        md \in ReqModes, b \in ReqBets, a \in ReqAmounts, k \in ReqMultipliers}

\* const isValid = ...
IsValid(req) ==
    \/ req.betType = "color" /\ req.betValue.v \in {"green", "red", "violet"}
    \/ req.betType = "number" /\ req.betValue.v \in DigitStrings
    \/ req.betType = "size" /\ req.betValue.v \in {"big", "small"}

\* a handler that checks nothing before it looks for the round
NoValidation(req) == ""

\* The synchronous checks of the handler: the error it answers with, or "".
Validate(req) ==
    IF \/ req.mode = ""
       \/ req.betType = ""
       \/ ~Truthy(req.betValue)
       \/ req.amount = 0
       \/ req.multiplier = 0
    THEN "Missing fields"
    ELSE IF req.mode \notin DOMAIN MODES THEN "Invalid mode"
    ELSE IF req.amount < MinBet THEN "Minimum bet is 10"
    ELSE IF ~IsValid(req) THEN "Invalid bet value for bet type"
    ELSE ""

\* A wager as the specification defines a well-formed one: a known track, an
\* amount of at least the minimum, a positive multiplier, and a bet value in
\* the domain of its bet type.
WellFormed(req) ==
    /\ req.mode \in DOMAIN MODES
    /\ req.amount >= MinBet
    /\ req.multiplier >= 1
    /\ \/ req.betType = "color" /\ req.betValue.v \in {"green", "red", "violet"}
       \/ req.betType = "number" /\ req.betValue.v \in DigitStrings
       \/ req.betType = "size" /\ req.betValue.v \in {"big", "small"}

\* round r takes wagers at instant t: it is open and timeLeft > 5
Accepting(r, t) == rounds[r].status = "open" /\ ~WithinLock(rounds[r], t)

\* whichever latest round the store returns for the track takes wagers
TrackAccepting(mode, t) ==
    /\ LatestIds(mode) # {}
    /\ \A r \in LatestIds(mode) : Accepting(r, t)

Rejected(error, req, ok) ==
    [code |-> 400, error |-> error, wellFormed |-> WellFormed(req), roundOk |-> ok]

\* The request arrives and the handler runs to its first await, or answers.
BetRequest ==
    /\ up
    /\ bet.pc = "idle"
    /\ betsUsed < lim.bets
    /\ betsUsed' = betsUsed + 1
    /\ \E req \in Requests :
          IF Validate(req) # ""
          THEN /\ resp' = Rejected(Validate(req), req, TrackAccepting(req.mode, now))
               /\ bet' = bet
          ELSE /\ bet' = [pc |-> "find", mode |-> req.mode,
                          betType |-> req.betType, betValue |-> req.betValue.v,
                          amount |-> req.amount, multiplier |-> req.multiplier,
                          roundId |-> 0, period |-> ""]
               /\ resp' = resp
    /\ UNCHANGED <<now, up, nextTick, rounds, bets, ops, ticks, errors,
                   crashes, bootId, lim, calc, lastErr>>

\* the request of the pending wager, as the handler holds it
PendingReq ==
    [mode |-> bet.mode, betType |-> bet.betType, betValue |-> Str(bet.betValue),
     amount |-> bet.amount, multiplier |-> bet.multiplier]

\* const round = await Round.findOne({ mode }).sort({ startTime: -1 }) comes
\* back: the status and the time left are checked, bet.save() is sent.
BetFind ==
    /\ bet.pc = "find"
    /\ IF LatestIds(bet.mode) = {}
       THEN /\ resp' = Rejected("Round is not open for betting", PendingReq, FALSE)
            /\ bet' = NoBet
       ELSE \E r \in LatestIds(bet.mode) :
              IF rounds[r].status # "open"
              THEN /\ resp' = Rejected("Round is not open for betting", PendingReq, FALSE)
                   /\ bet' = NoBet
              ELSE IF WithinLock(rounds[r], now)
              THEN /\ resp' = Rejected("Betting is closed (Time < 5s)", PendingReq, FALSE)
                   /\ bet' = NoBet
              ELSE /\ bet' = [bet EXCEPT !.pc = "save", !.roundId = r,
                                         !.period = rounds[r].period]
                   /\ resp' = resp
    /\ UNCHANGED <<now, up, nextTick, rounds, bets, ops, ticks, errors,
                   crashes, betsUsed, bootId, lim, calc, lastErr>>

\* new Bet({ ... }) with the defaults of BetSchema
BetDoc ==
    [roundId |-> bet.roundId, period |-> bet.period, mode |-> bet.mode,
     betType |-> bet.betType, betValue |-> bet.betValue, amount |-> bet.amount,
     multiplier |-> bet.multiplier, totalAmount |-> bet.amount * bet.multiplier,
     result |-> "pending", payout |-> 0]

\* await bet.save(); res.json({ success: true, bet })
BetSave ==
    /\ bet.pc = "save"
    /\ bets' = Append(bets, BetDoc)
    /\ resp' = [code |-> 200, error |-> "", wellFormed |-> TRUE, roundOk |-> TRUE]
    /\ bet' = NoBet
    /\ UNCHANGED <<now, up, nextTick, rounds, ops, ticks, errors, crashes,
                   betsUsed, bootId, lim, calc, lastErr>>

\* A repository call of the handler fails: catch answers 500.
BetError ==
    /\ bet.pc \in {"find", "save"}
    /\ errors < lim.errors
    /\ errors' = errors + 1
    /\ resp' = [code |-> 500, error |-> "Internal Server Error",
                wellFormed |-> TRUE, roundOk |-> bet.pc = "save"]
    /\ bet' = NoBet
    /\ UNCHANGED <<now, up, nextTick, rounds, bets, ops, ticks, crashes,
                   betsUsed, bootId, lim, calc, lastErr>>

Next ==
    \/ Start
    \/ Crash
    \/ Advance
    \/ TickFire
    \/ \E s \in Slots, m \in lim.tracks : Poll(s, m)
    \/ \E s \in Slots, m \in lim.tracks : LockSave(s, m)
    \/ \E s \in Slots, m \in lim.tracks : SettleSave(s, m)
    \/ \E s \in Slots, m \in lim.tracks : CnrFind(s, m)
    \/ \E s \in Slots, m \in lim.tracks : CnrSave(s, m)
    \/ \E s \in Slots, m \in lim.tracks : RepositoryError(s, m)

Spec == Init /\ [][Next]_vars

NextTracks ==
    \/ Start
    \/ Advance
    \/ TickFire
    \/ \E s \in Slots, m \in lim.tracks : Poll(s, m)
    \/ \E s \in Slots, m \in lim.tracks : LockSave(s, m)
    \/ \E s \in Slots, m \in lim.tracks : SettleSave(s, m)
    \/ \E s \in Slots, m \in lim.tracks : CnrFind(s, m)
    \/ \E s \in Slots, m \in lim.tracks : CnrSave(s, m)
    \/ \E s \in Slots, m \in lim.tracks : RepositoryError(s, m)

SpecTracks == InitTracks /\ [][NextTracks]_vars

NextBets ==
    \/ Start
    \/ Advance
    \/ TickFire
    \/ \E s \in Slots, m \in lim.tracks : Poll(s, m)
    \/ \E s \in Slots, m \in lim.tracks : LockSave(s, m)
    \/ \E s \in Slots, m \in lim.tracks : SettleSave(s, m)
    \/ \E s \in Slots, m \in lim.tracks : CnrFind(s, m)
    \/ \E s \in Slots, m \in lim.tracks : CnrSave(s, m)
    \/ \E s \in Slots, m \in lim.tracks : RepositoryError(s, m)
    \/ BetRequest
    \/ BetFind
    \/ BetSave
    \/ BetError

SpecBets == InitBets /\ [][NextBets]_vars

(***************************************************************************)
(* The engine under fair scheduling: the process starts when it is down,   *)
(* the clock moves, the timer fires, and every repository call sent is     *)
(* answered without an error; the process stops only as often as the run's *)
(* budget allows.                                                          *)
(***************************************************************************)
\* the track of the fair runs
LiveTracks == {ModeKeys[1]}

\* one track, one poll at a time, no failing repository call, a process stop
InitLive ==
    InitWith([tracks |-> LiveTracks, inflight |-> 1, ticks |-> MaxTicks,
              errors |-> 0, crashes |-> MaxCrashes, bets |-> 0])

NextLive ==
    \/ Start
    \/ Crash
    \/ Advance
    \/ TickFire
    \/ \E s \in Slots, m \in lim.tracks : Poll(s, m)
    \/ \E s \in Slots, m \in lim.tracks : LockSave(s, m)
    \/ \E s \in Slots, m \in lim.tracks : SettleSave(s, m)
    \/ \E s \in Slots, m \in lim.tracks : CnrFind(s, m)
    \/ \E s \in Slots, m \in lim.tracks : CnrSave(s, m)

Fairness ==
    /\ WF_vars(Start)
    /\ WF_vars(Advance)
    /\ WF_vars(TickFire)
    /\ \A s \in Slots, m \in LiveTracks :
          /\ WF_vars(Poll(s, m))
          /\ WF_vars(LockSave(s, m))
          /\ WF_vars(SettleSave(s, m))
          /\ WF_vars(CnrFind(s, m))
          /\ WF_vars(CnrSave(s, m))

SpecLive == InitLive /\ [][NextLive]_vars /\ Fairness

(***************************************************************************)
(* The pure functions, evaluated on their own: generatePeriod, the slot    *)
(* computation of createNewRound, the result computation of settleRound.   *)
(***************************************************************************)
\* seconds after local midnight the instants are drawn at: the two sides of
\* the first boundaries of every track, two slots of the middle of the day
\* (period numbers of four digits), the last second of the day
CalcOffsets == {0, 29, 30, 59, 60, 179, 180, 299, 300, 36899, 36900, 36930, 86399}

\* the first and the last millisecond of a second
CalcMillis == {0, MsPerSec - 1}

Instants ==
    {d * MsPerDay - TzOffsetMs + o * MsPerSec + f :
        d \in 1..CalcDays, o \in CalcOffsets, f \in CalcMillis}

\* no process runs; a run evaluates one function once
InitCalc ==
    InitWith([tracks |-> {}, inflight |-> 0, ticks |-> 0, errors |-> 0,
              crashes |-> 0, bets |-> 0])

\* generatePeriod(mode, time) at two instants
GeneratePeriodCall ==
    /\ calc = NoCalc
    /\ \E mode \in DOMAIN MODES, t1 \in Instants, t2 \in Instants :
          calc' = [op |-> "generatePeriod", mode |-> mode, t1 |-> t1, t2 |-> t2,
                   p1 |-> generatePeriod(mode, t1), p2 |-> generatePeriod(mode, t2),
                   n1 |-> PeriodNum(mode, t1), n2 |-> PeriodNum(mode, t2)]
    /\ UNCHANGED <<now, up, nextTick, rounds, bets, ops, bet, resp, ticks,
                   errors, crashes, betsUsed, bootId, lim, lastErr>>

\* the slot createNewRound computes, and whether it took the "behind, start
\* next slot" branch, at two instants
SlotCall ==
    /\ calc = NoCalc
    /\ \E mode \in DOMAIN MODES, t1 \in Instants, t2 \in Instants :
          LET c1 == CreateNewRoundCall(mode, t1)
              c2 == CreateNewRoundCall(mode, t2)
          IN  calc' = [op |-> "createNewRound", mode |-> mode, t1 |-> t1, t2 |-> t2,
                       start1 |-> c1.start, end1 |-> c1.end,
                       start2 |-> c2.start, end2 |-> c2.end,
                       behind1 |-> AlignedStart(mode, t1) + ModeMs(mode) <= t1,
                       behind2 |-> AlignedStart(mode, t2) + ModeMs(mode) <= t2]
    /\ UNCHANGED <<now, up, nextTick, rounds, bets, ops, bet, resp, ticks,
                   errors, crashes, betsUsed, bootId, lim, lastErr>>

\* the result settleRound computes from the number it draws
ResultCall ==
    /\ calc = NoCalc
    /\ \E number \in RandomInt :
          calc' = [op |-> "settleRound", number |-> number,
                   result |-> ResultOf(number)]
    /\ UNCHANGED <<now, up, nextTick, rounds, bets, ops, bet, resp, ticks,
                   errors, crashes, betsUsed, bootId, lim, lastErr>>

NextCalc ==
    \/ GeneratePeriodCall
    \/ SlotCall
    \/ ResultCall

SpecCalc == InitCalc /\ [][NextCalc]_vars

(***************************************************************************)
(* Properties of the round store.                                          *)
(***************************************************************************)
\* the rounds of a track that are open or locked
Active(m) ==
    {i \in DOMAIN rounds :
        rounds[i].mode = m /\ rounds[i].status \in {"open", "locked"}}

\* C1: in every reachable state each track has at most one round whose
\* status is open or locked.
C1_AtMostOneActive ==
    \A m \in lim.tracks : Cardinality(Active(m)) <= 1

\* C2: the store never holds two rounds with the same (track, period).
C2_UniquePeriod ==
    \A i, j \in DOMAIN rounds :
        (rounds[i].mode = rounds[j].mode /\ rounds[i].period = rounds[j].period)
            => i = j

StatusRank(status) ==
    IF status = "open" THEN 0 ELSE IF status = "locked" THEN 1 ELSE 2

\* C3: the stored status of a round only moves forward along
\* open -> locked -> settled, in every step of every execution.
C3_StatusForward ==
    [][\A i \in DOMAIN rounds :
          StatusRank(rounds'[i].status) >= StatusRank(rounds[i].status)]_vars

\* C4: once the result of a round is stored, no later step changes its
\* number, color or size (the round is settled once).
C4_ResultWrittenOnce ==
    [][\A i \in DOMAIN rounds :
          rounds[i].result # NoResult => rounds'[i].result = rounds[i].result]_vars

\* C6: at most one poll is in flight at any time.
C6_OneTickInFlight == Cardinality(TicksInFlight) <= 1

\* the branch the rule of C7 asks for
RuleBranch(round, t) ==
    IF TimeUp(round, t) THEN "settle"
    ELSE IF WithinLock(round, t) /\ round.status = "open" THEN "lock"
    ELSE "none"

\* the step is the poll of slot s, track m getting its round back
PollStep(s, m) ==
    /\ ops[s][m].pc = "findLatest"
    /\ ops'[s][m].pc # "findLatest"
    /\ ops'[s][m].out # "error"

\* C7: a poll that reads an unsettled latest round locks it when
\* 0 < timeLeft <= 5 and it is open, settles it when timeLeft <= 0 whether it
\* is open or locked, and leaves it alone otherwise.
C7_TickRule ==
    [][\A s \in Slots, m \in lim.tracks :
          PollStep(s, m) =>
             /\ ops'[s][m].pc = "lockSave" =>
                   RuleBranch(rounds[ops'[s][m].rid], now) = "lock"
             /\ ops'[s][m].pc = "settleSave" =>
                   RuleBranch(rounds[ops'[s][m].rid], now) = "settle"
             /\ ops'[s][m].out = "none" =>
                   \E r \in LatestIds(m) :
                       /\ rounds[r].status # "settled"
                       /\ RuleBranch(rounds[r], now) = "none"]_vars

\* the step ends, without a repository error, the settleRound call of slot
\* s, track m: its createNewRound returns
SettleRoundReturns(s, m) ==
    /\ ops[s][m].pc \in {"cnrFind", "cnrSave"}
    /\ ops[s][m].rid # 0
    /\ ops'[s][m].pc = "done"
    /\ ops'[s][m].out \in {"created", "exists"}

\* round i is open and its slot holds instant t
OpenFor(i, t) ==
    /\ rounds[i].status = "open"
    /\ rounds[i].startTime <= t
    /\ t < rounds[i].endTime

\* C8: when settleRound completes without a repository error, the settled
\* round is settled with a result and the latest round of the track is a
\* different round, open, for the slot that holds the current time.
C8_SuccessorAfterSettle ==
    [][\A s \in Slots, m \in lim.tracks :
          SettleRoundReturns(s, m) =>
             /\ rounds'[ops[s][m].rid].status = "settled"
             /\ rounds'[ops[s][m].rid].result # NoResult
             /\ \A l \in LatestIds(m)' :
                   l # ops[s][m].rid /\ OpenFor(l, now)']_vars

\* round i was in the store when the process last started
BeforeBoot(i) == i \in DOMAIN rounds /\ i < bootId

\* instant t lies in the slot of round i
InSlotOf(i, t) == rounds[i].startTime <= t /\ t < rounds[i].endTime

\* C9: after a restart, a createNewRound call made at an instant inside the
\* slot of a round that was already stored computes that round's slot start
\* and period again and does not go on to save, and no round saved after the
\* restart shares a track and a slot or period with a round stored before it.
C9_RestartSameSlot ==
    /\ \A s \in Slots, m \in lim.tracks, i \in DOMAIN rounds :
          ( /\ ops[s][m].pc \in {"cnrFind", "cnrSave"}
            /\ BeforeBoot(i)
            /\ rounds[i].mode = m
            /\ InSlotOf(i, ops[s][m].at) )
          => /\ ops[s][m].start = rounds[i].startTime
             /\ ops[s][m].period = rounds[i].period
             /\ ops[s][m].pc # "cnrSave"
    /\ \A i, j \in DOMAIN rounds :
          (BeforeBoot(i) /\ ~BeforeBoot(j) /\ rounds[i].mode = rounds[j].mode)
          => /\ rounds[j].startTime # rounds[i].startTime
             /\ rounds[j].period # rounds[i].period

\* the process was restarted inside the slot of a stored, unsettled round: the
\* call of startGameLoop found it, a later poll of that slot left it alone,
\* and it is the only round of its slot
C9_Witness ==
    /\ crashes >= 1
    /\ up
    /\ \E m \in lim.tracks, i \in DOMAIN rounds :
          /\ BeforeBoot(i)
          /\ rounds[i].mode = m
          /\ rounds[i].status # "settled"
          /\ InSlotOf(i, now)
          /\ ops[0][m].out = "exists"
          /\ \E s \in TickSlots : ops[s][m].out = "none"
          /\ \A j \in DOMAIN rounds :
                (rounds[j].mode = m /\ rounds[j].startTime = rounds[i].startTime)
                    => j = i

(***************************************************************************)
(* Properties of the bet handler.                                          *)
(***************************************************************************)
\* C5: a well-formed wager is accepted and recorded if and only if, at the
\* moment of the check, the latest round of its track is open with more than
\* 5 seconds left; in every other case it is rejected.
C5_AcceptIffOpen ==
    (resp.code \in {200, 400} /\ resp.wellFormed)
        => ((resp.code = 200) <=> resp.roundOk)

(***************************************************************************)
(* Properties of the failure handling.                                     *)
(***************************************************************************)
\* the step logs a repository error of the chain of slot s, track m
ErrorStep(s, m) ==
    /\ errors' = errors + 1
    /\ ops[s][m].pc # "done"
    /\ ops'[s][m].out = "error"

\* round i is the only round of its track and slot
Sole(i) ==
    \A j \in DOMAIN rounds :
        (rounds[j].mode = rounds[i].mode /\ rounds[j].startTime = rounds[i].startTime)
            => j = i

\* a poll fired after the last error has run the chain of track m to its end
PolledAfterError(m) ==
    /\ lastErr.track = m
    /\ lastErr.polled
    /\ \A s \in TickSlots :
          ops[s][m].pc = "done" /\ ops[s][m].out \notin {"error", "idle"}

\* C10: a repository error in the chain of one track ends that chain only: the
\* store, the timer, the process and the chains of the other tracks are left
\* as they were; every later firing of the timer polls every track again; and
\* once a later poll of the failed track has run to its end, the transition
\* that failed has been made from what the store held: the round whose lock
\* failed is no longer open, the round whose settlement failed is settled
\* (when it is the only round of its slot, so that the poll reads it again),
\* and the latest round of the track is one still in play or one of the slot of
\* the creation that failed (or of a later slot): the track is never left with
\* no round or with a settled round of an earlier slot as its latest.
C10_ErrorConfined ==
    /\ [][\A s \in Slots, m \in lim.tracks :
             ErrorStep(s, m) =>
                /\ up'
                /\ rounds' = rounds
                /\ nextTick' = nextTick
                /\ \A q \in Slots, k \in lim.tracks :
                      <<q, k>> # <<s, m>> => ops'[q][k] = ops[q][k]]_vars
    /\ [][ticks' = ticks + 1 =>
             \E s \in TickSlots :
                \A m \in lim.tracks : ops'[s][m].pc = "findLatest"]_vars
    /\ [](\A m \in lim.tracks :
             PolledAfterError(m) =>
                /\ (lastErr.pc = "lockSave" /\ Sole(lastErr.rid)) =>
                      rounds[lastErr.rid].status # "open"
                /\ (lastErr.pc = "settleSave" /\ Sole(lastErr.rid)) =>
                      rounds[lastErr.rid].status = "settled"
                /\ lastErr.pc \in {"cnrFind", "cnrSave"} =>
                      \E j \in LatestIds(m) :
                          \/ rounds[j].status # "settled"
                          \/ rounds[j].startTime >= lastErr.start)

\* the lock of one track failed in the first poll while another track was
\* locked in that same poll, and the second poll has locked the failed track
C10_Witness ==
    \E m1, m2 \in lim.tracks :
        /\ m1 # m2
        /\ up
        /\ lastErr.track = m1
        /\ lastErr.pc = "lockSave"
        /\ lastErr.polled
        /\ ticks = 2
        /\ ops[1][m1].out = "locked"
        /\ rounds[lastErr.rid].status = "locked"
        /\ ops[1][m2].pc = "findLatest"
        /\ \E i \in DOMAIN rounds :
              rounds[i].mode = m2 /\ rounds[i].status = "locked"

(***************************************************************************)
(* Properties of a rejected wager.                                         *)
(***************************************************************************)
\* the step is one of the bet handler
HandlerStep == bet' # bet \/ resp' # resp \/ betsUsed' # betsUsed

\* the step answers 400
RejectStep == HandlerStep /\ resp' # resp /\ resp'.code = 400

\* C11: a rejected wager mutates nothing.  The step that answers 400 leaves
\* the Bet records and the Round records as they were, no step of the handler
\* changes a Round, and a Bet is recorded only by the step that answers 200,
\* for a request of a known track, of at least the minimum amount and with a
\* bet value of its type's domain, whose round was open with more than 5
\* seconds left when the handler checked it: no request the handler must
\* reject leaves a record behind.
C11_RejectMutatesNothing ==
    /\ [][RejectStep => bets' = bets /\ rounds' = rounds]_vars
    /\ [][HandlerStep => rounds' = rounds]_vars
    /\ [][bets' # bets =>
             /\ bet.pc = "save"
             /\ resp'.code = 200
             /\ WellFormed(PendingReq)
             /\ bets' = Append(bets, BetDoc)]_vars
    /\ [][(bet.pc = "find" /\ bet'.pc = "save") =>
             Accepting(bet'.roundId, now)]_vars

\* a wager that passed the validation was refused because its round had 5
\* seconds or less left; the store holds that round and no Bet
C11_Witness ==
    /\ resp.code = 400
    /\ resp.error = "Betting is closed (Time < 5s)"
    /\ resp.wellFormed
    /\ \E r \in DOMAIN rounds : rounds[r].status = "open"
    /\ bets = <<>>
    /\ bet = NoBet

(***************************************************************************)
(* Properties of the period identifier.                                    *)
(***************************************************************************)
\* seconds of local time elapsed since midnight at instant t
SecondsSinceMidnight(t) == ((t + TzOffsetMs) % MsPerDay) \div MsPerSec

\* the index, within its day, of the slot of a track that holds instant t
SlotIndex(mode, t) == SecondsSinceMidnight(t) \div MODES[mode]

\* the two instants lie on one calendar day
SameDay(t1, t2) == (t1 + TzOffsetMs) \div MsPerDay = (t2 + TzOffsetMs) \div MsPerDay

\* C12: for a track, generatePeriod gives two instants the same period if and
\* only if they lie on the same calendar day and in the same slot of the day;
\* the period number is the slot index plus one, so that within a day it grows
\* strictly with the slot index and never repeats.
C12_PeriodIdentifiesSlot ==
    calc.op = "generatePeriod" =>
        /\ (calc.p1 = calc.p2) <=>
              /\ SameDay(calc.t1, calc.t2)
              /\ SlotIndex(calc.mode, calc.t1) = SlotIndex(calc.mode, calc.t2)
        /\ calc.n1 = SlotIndex(calc.mode, calc.t1) + 1
        /\ calc.n2 = SlotIndex(calc.mode, calc.t2) + 1
        /\ (SameDay(calc.t1, calc.t2)
               /\ SlotIndex(calc.mode, calc.t1) < SlotIndex(calc.mode, calc.t2))
              => calc.n1 < calc.n2

\* two instants an hour apart, on one day: their periods differ, and the
\* later one has the greater number
C12_Witness ==
    /\ calc.op = "generatePeriod"
    /\ SameDay(calc.t1, calc.t2)
    /\ calc.t2 - calc.t1 >= 3600 * MsPerSec
    /\ calc.p1 # calc.p2
    /\ calc.n1 < calc.n2

(***************************************************************************)
(* Properties of the slot of createNewRound.                               *)
(***************************************************************************)
\* the number, on the grid of a track, of the slot that holds instant t
GridSlot(mode, t) == t \div (MODES[mode] * MsPerSec)

\* C13: the slot createNewRound computes depends only on the slot its instant
\* lies in.  It ends one duration after it starts, it starts on a multiple of
\* the duration, two instants of one slot give the same slot, and instants of
\* adjacent slots give starts exactly one duration apart.
C13_SlotOfInstant ==
    calc.op = "createNewRound" =>
        LET duration == MODES[calc.mode] * MsPerSec
        IN  /\ calc.end1 = calc.start1 + duration
            /\ calc.end2 = calc.start2 + duration
            /\ calc.start1 % duration = 0
            /\ calc.start2 % duration = 0
            /\ GridSlot(calc.mode, calc.t1) = GridSlot(calc.mode, calc.t2)
                  => (calc.start1 = calc.start2 /\ calc.end1 = calc.end2)
            /\ GridSlot(calc.mode, calc.t2) = GridSlot(calc.mode, calc.t1) + 1
                  => calc.start2 = calc.start1 + duration

\* the last millisecond of a slot of the 5min track and the first of the
\* next: the starts are one duration apart
C13_Witness ==
    /\ calc.op = "createNewRound"
    /\ calc.mode = "5min"
    /\ calc.t2 = calc.t1 + 1
    /\ GridSlot(calc.mode, calc.t2) = GridSlot(calc.mode, calc.t1) + 1
    /\ calc.start2 = calc.start1 + MODES[calc.mode] * MsPerSec

(***************************************************************************)
(* Properties of the result of settleRound.                                *)
(***************************************************************************)
\* the colour the specification gives a number
ColorTable ==
    [n \in 0..9 |->
        CASE n = 0 -> "red_violet"
          [] n = 5 -> "green_violet"
          [] n \in {1, 3, 7, 9} -> "green"
          [] n \in {2, 4, 6, 8} -> "red"]

\* C14: every result settleRound computes has a number of 0..9, the colour
\* red_violet for 0, green_violet for 5, green for 1, 3, 7, 9 and red for
\* 2, 4, 6, 8, and the size big exactly when the number is at least 5 and
\* small otherwise.
C14_ResultTable ==
    calc.op = "settleRound" =>
        /\ calc.result.number \in 0..9
        /\ calc.result.number = calc.number
        /\ calc.result.color = ColorTable[calc.number]
        /\ (calc.result.size = "big") <=> (calc.number >= 5)
        /\ (calc.result.size = "small") <=> (calc.number < 5)

\* the number 5 was drawn: green_violet and big
C14_Witness ==
    /\ calc.op = "settleRound"
    /\ calc.number = 5
    /\ calc.result = [number |-> 5, color |-> "green_violet", size |-> "big"]

(***************************************************************************)
(* Properties of the creation of rounds.                                   *)
(***************************************************************************)
\* the step inserts a round
InsertStep == Len(rounds') = Len(rounds) + 1

\* C15: a round is inserted for a track only when, at that moment, the track
\* has no round at all or every round the store may return as its latest is
\* settled, whoever called createNewRound.
C15_CreateOnlyAfterSettled ==
    [][InsertStep =>
          LET m == rounds'[Len(rounds')].mode
          IN  \A r \in LatestIds(m) : rounds[r].status = "settled"]_vars

(***************************************************************************)
(* Properties of the result of a stored round.                             *)
(***************************************************************************)
\* C16: in every state of the store a round has a result if and only if its
\* status is settled: no open or locked round carries one, no settled round
\* lacks one.
C16_ResultIffSettled ==
    \A i \in DOMAIN rounds :
        (rounds[i].result # NoResult) <=> (rounds[i].status = "settled")

(***************************************************************************)
(* Properties of the instants of the transitions.                          *)
(***************************************************************************)
\* the step writes status st to round i, which did not have it
Becomes(i, st) == rounds[i].status # st /\ rounds'[i].status = st

\* the chain of slot s, track m holds the write of status pc for round i
Writes(s, m, pc, i) == ops[s][m].pc = pc /\ ops[s][m].rid = i

\* C17: no transition is early with respect to the clock the poll read.  A
\* poll decides to lock a round only when it reads endTime - now <= 5 s and
\* to settle it only when it reads now >= endTime; a round becomes locked or
\* settled only by the write of a poll that decided so; hence a locked round
\* is within 5 s of its end or past it, a settled round is past its end, and
\* the bet handler's test would accept a wager on neither.
C17_NoEarlyTransition ==
    /\ [][\A s \in Slots, m \in lim.tracks :
             PollStep(s, m) =>
                /\ ops'[s][m].pc = "lockSave" =>
                      rounds[ops'[s][m].rid].endTime - now <= LockThreshold * MsPerSec
                /\ ops'[s][m].pc = "settleSave" =>
                      now >= rounds[ops'[s][m].rid].endTime]_vars
    /\ [][\A i \in DOMAIN rounds :
             /\ Becomes(i, "locked") =>
                   /\ \E s \in Slots, m \in lim.tracks : Writes(s, m, "lockSave", i)
                   /\ rounds[i].endTime - now <= LockThreshold * MsPerSec
             /\ Becomes(i, "settled") =>
                   /\ \E s \in Slots, m \in lim.tracks : Writes(s, m, "settleSave", i)
                   /\ now >= rounds[i].endTime]_vars
    /\ [](\A i \in DOMAIN rounds :
             /\ rounds[i].status = "locked" =>
                   rounds[i].endTime - now <= LockThreshold * MsPerSec
             /\ rounds[i].status = "settled" => now >= rounds[i].endTime
             /\ rounds[i].status \in {"locked", "settled"} => ~Accepting(i, now))

\* a round was settled after its end and the round of the next slot was
\* locked
C17_Witness ==
    \E i, j \in DOMAIN rounds :
        /\ rounds[i].status = "settled"
        /\ now >= rounds[i].endTime
        /\ rounds[j].startTime = rounds[i].endTime
        /\ rounds[j].status = "locked"

(***************************************************************************)
(* Properties of the fair runs.                                            *)
(***************************************************************************)
\* round i is stored and not settled
Unsettled(i) == i \in DOMAIN rounds /\ rounds[i].status # "settled"

\* round i is one the poll of its track reads: a latest round of the track
InPlay(i) == i \in DOMAIN rounds /\ i \in LatestIds(rounds[i].mode)

\* the run has fired the polls it explores, or its clock has reached the end
RunEnds ==
    \/ ticks = lim.ticks
    \/ now + PollIntervalMs > Boundary + Horizon * MsPerSec

\* C18: every round created is eventually settled, whatever the track and
\* across restarts in a later slot: while the timer keeps firing and the
\* repository answers, a round that is open or locked reaches settled.  On
\* the runs explored, which end: it is settled, or the run ends with the
\* round still the one the poll reads.
C18_EventuallySettled ==
    \A i \in 1..LiveRounds :
        [](Unsettled(i) =>
              <>(\/ i \in DOMAIN rounds /\ rounds[i].status = "settled"
                 \/ RunEnds /\ InPlay(i)))

(***************************************************************************)
(* Properties of the slot with respect to the instant of its computation.  *)
(***************************************************************************)
\* C19: the slot createNewRound chooses holds the instant at which it is
\* computed, slotStart <= now < slotEnd: the "behind, start next slot" advance
\* is never taken, the slot has started, and the round built for it has
\* 0 < endTime - now <= duration.
C19_SlotHoldsInstant ==
    calc.op = "createNewRound" =>
        LET duration == MODES[calc.mode] * MsPerSec
        IN  /\ ~calc.behind1 /\ ~calc.behind2
            /\ calc.start1 <= calc.t1 /\ calc.t1 < calc.end1
            /\ calc.start2 <= calc.t2 /\ calc.t2 < calc.end2
            /\ 0 < calc.end1 - calc.t1 /\ calc.end1 - calc.t1 <= duration
            /\ 0 < calc.end2 - calc.t2 /\ calc.end2 - calc.t2 <= duration

\* the slot computed at its own first instant, and the slot computed at the
\* last millisecond of a slot
C19_Witness ==
    /\ calc.op = "createNewRound"
    /\ calc.t1 = calc.start1
    /\ calc.end1 - calc.t1 = MODES[calc.mode] * MsPerSec
    /\ calc.t2 = calc.end2 - 1

====
